---- MODULE Spec2Model ----
(***************************************************************************)
(* Model of examples/python-plugin/check.py, the JSON validator plugin of  *)
(* go-pre-commit: one request on stdin, one response on stdout, an exit    *)
(* status.                                                                 *)
(*                                                                         *)
(* Text is a sequence of pieces (strings); concatenation is \o.  A path is *)
(* a sequence of characters, a file content is a sequence of JSON lexemes  *)
(* and whitespace characters.                                              *)
(***************************************************************************)
EXTENDS Integers, Sequences, FiniteSets, TLC

(***************************************************************************)
(* Bounds of the model.                                                    *)
(***************************************************************************)
\* longest `files` list of a request
MaxFiles == 2
\* most whitespace characters appended after a rewritten file's text
MaxTrail == 1

(***************************************************************************)
(* Python's json module over a small lexeme alphabet.                      *)
(***************************************************************************)
\* whitespace the JSON decoder skips (json.decoder.WHITESPACE: " \t\n\r")
JsonWs == {" ", "\n"}
\* whitespace str.rstrip() strips: str.isspace(), which also holds of \f
PyWs == {" ", "\n", "\f"}
\* scalar lexemes: integer, float in exponent form, float, two strings
ScalarLexemes == {"1", "1e0", "1.0", "\"a\"", "\"b\""}
StringLexemes == {"\"a\"", "\"b\""}
NumberLexemes == {"1", "1e0", "1.0"}
\* lexemes a file content is made of; "x" is a bare word, never valid JSON
Alphabet == {"{", "}", "[", "]", ",", ":", " ", "\n", "\f", "1", "1e0", "\"a\"", "\"b\"", "x"}

\* number of characters of a lexeme
Width(tok) ==
  CASE tok \in {"1e0", "1.0", "\"a\"", "\"b\""} -> 3
    [] OTHER -> 1

\* json.loads of a scalar lexeme followed by json.dumps of the value:
\* 1e0 is the float 1.0 and is written back as 1.0
Canon(tok) ==
  CASE tok = "1e0" -> "1.0"
    [] OTHER -> tok

\* s[end:end+1] with the 1-based index i: the empty string past the end
At(s, i) == IF i >= 1 /\ i <= Len(s) THEN s[i] ELSE ""

\* WHITESPACE.match(s, end).end()
RECURSIVE SkipWs(_, _)
SkipWs(s, i) == IF At(s, i) \in JsonWs THEN SkipWs(s, i + 1) ELSE i

Fail(msg, i) == [ok |-> FALSE, msg |-> msg, pos |-> i]
Ok(val, i) == [ok |-> TRUE, val |-> val, end |-> i]

\* dict(pairs): a repeated key keeps its first position and its last value
PutPair(pairs, k, v) ==
  IF \E j \in 1..Len(pairs) : pairs[j].k = k
    THEN [j \in 1..Len(pairs) |-> IF pairs[j].k = k THEN [k |-> k, val |-> v] ELSE pairs[j]]
    ELSE Append(pairs, [k |-> k, val |-> v])

RECURSIVE ScanOnce(_, _)
RECURSIVE ObjectLoop(_, _, _)
RECURSIVE ArrayLoop(_, _, _)

\* json.decoder.JSONObject, the loop over the pairs; i is at a key string
ObjectLoop(s, i, pairs) ==
  LET key == Canon(At(s, i))
      c == SkipWs(s, i + 1)
  IN IF At(s, c) # ":" THEN Fail("Expecting ':' delimiter", c)
     ELSE LET r == ScanOnce(s, SkipWs(s, c + 1))
          IN IF ~r.ok THEN r
             ELSE LET e == SkipWs(s, r.end)
                      done == PutPair(pairs, key, r.val)
                  IN IF At(s, e) = "}" THEN Ok([t |-> "obj", v |-> done], e + 1)
                     ELSE IF At(s, e) # "," THEN Fail("Expecting ',' delimiter", e)
                     ELSE LET n == SkipWs(s, e + 1)
                          IN IF At(s, n) \notin StringLexemes
                               THEN Fail("Expecting property name enclosed in double quotes", n)
                               ELSE ObjectLoop(s, n, done)

\* json.decoder.JSONObject; i is just after the opening brace
ParseObject(s, i) ==
  LET n == SkipWs(s, i)
  IN IF At(s, n) = "}" THEN Ok([t |-> "obj", v |-> <<>>], n + 1)
     ELSE IF At(s, n) \notin StringLexemes
       THEN Fail("Expecting property name enclosed in double quotes", n)
       ELSE ObjectLoop(s, n, <<>>)

\* json.decoder.JSONArray, the loop over the items
ArrayLoop(s, i, items) ==
  LET r == ScanOnce(s, i)
  IN IF ~r.ok THEN r
     ELSE LET e == SkipWs(s, r.end)
              done == Append(items, r.val)
          IN IF At(s, e) = "]" THEN Ok([t |-> "arr", v |-> done], e + 1)
             ELSE IF At(s, e) # "," THEN Fail("Expecting ',' delimiter", e)
             ELSE ArrayLoop(s, SkipWs(s, e + 1), done)

\* json.decoder.JSONArray; i is just after the opening bracket
ParseArray(s, i) ==
  LET n == SkipWs(s, i)
  IN IF At(s, n) = "]" THEN Ok([t |-> "arr", v |-> <<>>], n + 1)
     ELSE ArrayLoop(s, n, <<>>)

\* json.scanner.scan_once; StopIteration becomes "Expecting value" in
\* every caller
ScanOnce(s, i) ==
  LET c == At(s, i)
  IN CASE c \in ScalarLexemes -> Ok([t |-> "lit", v |-> Canon(c)], i + 1)
       [] c = "{" -> ParseObject(s, i + 1)
       [] c = "[" -> ParseArray(s, i + 1)
       [] OTHER -> Fail("Expecting value", i)

\* json.loads: JSONDecoder.decode
JsonLoads(s) ==
  LET r == ScanOnce(s, SkipWs(s, 1))
  IN IF ~r.ok THEN r
     ELSE LET e == SkipWs(s, r.end)
          IN IF e # Len(s) + 1 THEN Fail("Extra data", e) ELSE r

\* JSONDecodeError.lineno and .colno of the 1-based lexeme index i
Newlines(s, i) == Cardinality({j \in 1..(i - 1) : j <= Len(s) /\ s[j] = "\n"})
LineNo(s, i) == Newlines(s, i) + 1
RECURSIVE ColNo(_, _)
ColNo(s, i) ==
  IF i <= 1 THEN 1
  ELSE IF s[i - 1] = "\n" THEN 1
  ELSE ColNo(s, i - 1) + Width(s[i - 1])

\* ' ' * n
RECURSIVE Spaces(_)
Spaces(n) == IF n <= 0 THEN <<>> ELSE <<" ">> \o Spaces(n - 1)

\* sorted(dct.items()): insertion sort by key; the keys are "a" < "b"
KeyRank(k) == IF k = "\"a\"" THEN 1 ELSE 2
RECURSIVE InsertSorted(_, _)
InsertSorted(sorted, p) ==
  IF sorted = <<>> THEN <<p>>
  ELSE IF KeyRank(p.k) < KeyRank(Head(sorted).k) THEN <<p>> \o sorted
  ELSE <<Head(sorted)>> \o InsertSorted(Tail(sorted), p)
RECURSIVE SortPairs(_)
SortPairs(pairs) ==
  IF pairs = <<>> THEN <<>>
  ELSE InsertSorted(SortPairs(SubSeq(pairs, 1, Len(pairs) - 1)), pairs[Len(pairs)])

\* json.encoder with indent: items on lines of their own, "," and ": " as
\* separators, empty containers written as [] and {}
RECURSIVE Encode(_, _, _, _)
RECURSIVE EncodeItems(_, _, _, _, _)
EncodeItems(items, isObj, indent, sort_keys, level) ==
  IF items = <<>> THEN <<>>
  ELSE LET h == Head(items)
           one == IF isObj
                    THEN <<h.k, ":", " ">> \o Encode(h.val, indent, sort_keys, level)
                    ELSE Encode(h, indent, sort_keys, level)
           rest == Tail(items)
       IN <<"\n">> \o Spaces(indent * level) \o one
            \o (IF rest = <<>> THEN <<>> ELSE <<",">>)
            \o EncodeItems(rest, isObj, indent, sort_keys, level)
Encode(val, indent, sort_keys, level) ==
  CASE val.t = "lit" -> <<val.v>>
    [] val.t = "arr" ->
         IF val.v = <<>> THEN <<"[", "]">>
         ELSE <<"[">> \o EncodeItems(val.v, FALSE, indent, sort_keys, level + 1)
                \o <<"\n">> \o Spaces(indent * level) \o <<"]">>
    [] val.t = "obj" ->
         IF val.v = <<>> THEN <<"{", "}">>
         ELSE <<"{">>
                \o EncodeItems(IF sort_keys THEN SortPairs(val.v) ELSE val.v, TRUE,
                               indent, sort_keys, level + 1)
                \o <<"\n">> \o Spaces(indent * level) \o <<"}">>

\* json.dumps(data, indent=indent_size, sort_keys=sort_keys, ensure_ascii=False)
JsonDumps(data, indent_size, sort_keys) == Encode(data, indent_size, sort_keys, 0)

\* str.rstrip('\n') in place of str.rstrip()
RECURSIVE RStripNewlines(_)
RStripNewlines(s) ==
  IF s # <<>> /\ s[Len(s)] = "\n" THEN RStripNewlines(SubSeq(s, 1, Len(s) - 1)) ELSE s

\* str.rstrip()
RECURSIVE RStrip(_)
RStrip(s) ==
  IF s # <<>> /\ s[Len(s)] \in PyWs THEN RStrip(SubSeq(s, 1, Len(s) - 1)) ELSE s

(***************************************************************************)
(* Python built-ins used by check.py.                                      *)
(***************************************************************************)
\* str.endswith(suffix) on sequences of characters
EndsWith(s, suffix) ==
  Len(s) >= Len(suffix) /\ SubSeq(s, Len(s) - Len(suffix) + 1, Len(s)) = suffix

\* sep.join(lines), as text
RECURSIVE Join(_, _)
Join(lines, sep) ==
  IF lines = <<>> THEN <<>>
  ELSE IF Len(lines) = 1 THEN lines[1]
  ELSE lines[1] \o <<sep>> \o Join(Tail(lines), sep)

\* int(s): the strings the environment may hold
PyInt(s) ==
  CASE s = "2" -> [ok |-> TRUE, v |-> 2]
    [] s = "4" -> [ok |-> TRUE, v |-> 4]
    [] s = "0" -> [ok |-> TRUE, v |-> 0]
    [] OTHER -> [ok |-> FALSE, v |-> 0]

\* str.lower() on a sequence of characters
LowerChar(c) ==
  CASE c = "T" -> "t" [] c = "R" -> "r" [] c = "U" -> "u" [] c = "E" -> "e"
    [] c = "Y" -> "y" [] c = "S" -> "s"
    [] OTHER -> c
Lower(s) == [i \in 1..Len(s) |-> LowerChar(s[i])]

\* str(b) of a bool, as f-strings print it
PyBool(b) == IF b THEN "True" ELSE "False"

(***************************************************************************)
(* The inputs of one invocation.                                           *)
(***************************************************************************)
PathA == <<"a", ".", "j", "s", "o", "n">>
PathB == <<"b", ".", "j", "s", "o", "n", "c">>
PathC == <<"c", ".", "t", "x", "t">>
Paths == {PathA, PathB, PathC}

\* an element of `files`: a path string, or a JSON number
StrEntry(p) == [t |-> "str", s |-> p]
NumEntry == [t |-> "num", s |-> <<>>]
Entries == {StrEntry(p) : p \in Paths} \cup {NumEntry}
EntryLists == UNION {[1..k -> Entries] : k \in 0..MaxFiles}

\* the `files` member: absent, a list, a string (iterated by character) or
\* a number
FilesValues ==
  {[t |-> "absent", items |-> <<>>], [t |-> "num", items |-> <<>>]}
    \cup {[t |-> "list", items |-> l] : l \in EntryLists}
    \cup {[t |-> "str", items |-> [i \in 1..Len(PathA) |-> StrEntry(<<PathA[i]>>)]]}

\* the `command` member: absent, a string or null
CommandValues ==
  {[t |-> "absent", s |-> ""], [t |-> "null", s |-> ""],
   [t |-> "str", s |-> "check"], [t |-> "str", s |-> "fix"]}

\* the stdin payload: not JSON, a JSON array, or a JSON object
Payloads ==
  {[kind |-> "garbage", command |-> [t |-> "absent", s |-> ""],
    files |-> [t |-> "absent", items |-> <<>>]],
   [kind |-> "array", command |-> [t |-> "absent", s |-> ""],
    files |-> [t |-> "absent", items |-> <<>>]]}
    \cup {[kind |-> "object", command |-> c, files |-> f] :
            c \in CommandValues, f \in FilesValues}

\* the environment: each variable is unset, or set to a string
Environments ==
  [INDENT_SIZE : {[set |-> FALSE, val |-> ""], [set |-> TRUE, val |-> "4"],
                  [set |-> TRUE, val |-> "abc"]},
   SORT_KEYS : {[set |-> FALSE, val |-> <<>>], [set |-> TRUE, val |-> <<"T", "r", "u", "e">>],
                [set |-> TRUE, val |-> <<"y", "e", "s">>]}]

\* os.environ.get(name, default)
EnvGet(var, default) == IF var.set THEN var.val ELSE default

\* file contents of the file systems the program is run on
\*   {\n  "b": 1,\n  "a": 1.0\n}\n   canonical with indent 2, keys unsorted
ContentIndent2 ==
  <<"{", "\n", " ", " ", "\"b\"", ":", " ", "1", ",", "\n", " ", " ", "\"a\"", ":", " ", "1.0",
    "\n", "}", "\n">>
\*   {"b":1e0}                      valid JSON, never canonical
ContentCompact == <<"{", "\"b\"", ":", "1e0", "}">>
\*   {x:1}                          not JSON
ContentBad == <<"{", "x", ":", "1", "}">>
\*   1\n                            canonical under every option
ContentScalar == <<"1", "\n">>
FsContents == {ContentIndent2, ContentCompact, ContentBad, ContentScalar}

Missing == [kind |-> "missing", content |-> <<>>]
Denied == [kind |-> "denied", content |-> <<>>]
File(content) == [kind |-> "file", content |-> content]
FileStates == {Missing, Denied} \cup {File(c) : c \in FsContents}
FileSystems ==
  {[p \in Paths |-> IF p = PathA THEN a ELSE IF p = PathB THEN b ELSE File(ContentBad)] :
     a \in FileStates, b \in FileStates}

(***************************************************************************)
(* The state of one invocation.                                            *)
(***************************************************************************)
VARIABLES
  stdin,         \* the payload on standard input
  env,           \* the process environment
  fs,            \* the file system: path -> file
  pc,            \* the position in main
  command,       \* main's local variables
  files,
  indent_size,
  sort_keys,
  idx,           \* 1-based position of the for loop in files
  result,        \* the last result of validate_json_file
  errors,
  modified,
  output_lines,
  stdout,        \* the responses printed
  exit_code,     \* the exit status, -1 while running
  traceback,     \* the uncaught exception, "" if none
  opened,        \* the paths passed to open(), in order
  trail          \* the whitespace appended when a file is rewritten

vars == <<stdin, env, fs, pc, command, files, indent_size, sort_keys, idx, result, errors,
          modified, output_lines, stdout, exit_code, traceback, opened, trail>>

NoResult == [valid |-> TRUE, needs_formatting |-> FALSE]

(***************************************************************************)
(* validate_json_file                                                      *)
(***************************************************************************)
\* the comparison made with content in place of content.rstrip()
validate_json_file_exact(fsys, filepath, indent, sort) ==
  LET f == fsys[filepath]
  IN CASE f.kind = "missing" ->
            [valid |-> FALSE, error |-> <<"File not found: ">> \o filepath]
       [] f.kind = "denied" ->
            [valid |-> FALSE,
             error |-> <<"[Errno 13] Permission denied: '">> \o filepath \o <<"'">>]
       [] OTHER ->
            LET content == f.content
                data == JsonLoads(content)
            IN IF ~data.ok
                 THEN [valid |-> FALSE,
                       error |-> <<"Invalid JSON at line ", ToString(LineNo(content, data.pos)),
                                   ", column ", ToString(ColNo(content, data.pos)), ": ",
                                   data.msg>>]
                 ELSE LET formatted == JsonDumps(data.val, indent, sort)
                      IN IF formatted # content
                           THEN [valid |-> TRUE, needs_formatting |-> TRUE,
                                 formatted |-> formatted]
                           ELSE [valid |-> TRUE, needs_formatting |-> FALSE]

validate_json_file(fsys, filepath, indent, sort) ==
  LET f == fsys[filepath]
  IN CASE f.kind = "missing" ->
            [valid |-> FALSE, error |-> <<"File not found: ">> \o filepath]
       [] f.kind = "denied" ->
            [valid |-> FALSE,
             error |-> <<"[Errno 13] Permission denied: '">> \o filepath \o <<"'">>]
       [] OTHER ->
            LET content == f.content
                data == JsonLoads(content)
            IN IF ~data.ok
                 THEN [valid |-> FALSE,
                       error |-> <<"Invalid JSON at line ", ToString(LineNo(content, data.pos)),
                                   ", column ", ToString(ColNo(content, data.pos)), ": ",
                                   data.msg>>]
                 ELSE LET formatted == JsonDumps(data.val, indent, sort)
                      IN IF formatted # RStrip(content)
                           THEN [valid |-> TRUE, needs_formatting |-> TRUE,
                                 formatted |-> formatted]
                           ELSE [valid |-> TRUE, needs_formatting |-> FALSE]

(***************************************************************************)
(* main                                                                    *)
(***************************************************************************)
\* print(json.dumps(response)); sys.exit(code)
Emit(response, code) ==
  /\ stdout' = Append(stdout, response)
  /\ exit_code' = code
  /\ pc' = "done"

\* an exception nothing catches: the traceback goes to stderr, nothing to
\* stdout, the interpreter exits with status 1
Crash(exc) ==
  /\ traceback' = exc
  /\ exit_code' = 1
  /\ pc' = "done"
  /\ UNCHANGED stdout

InvalidInputResponse ==
  [success |-> FALSE, error |-> <<"Invalid input JSON">>,
   suggestion |-> <<"Plugin expects valid JSON input via stdin">>]

\* input_data = json.loads(sys.stdin.read())
ReadInput ==
  /\ pc = "read"
  /\ IF stdin.kind = "garbage"
       THEN Emit(InvalidInputResponse, 1)
       ELSE /\ pc' = "extract"
            /\ UNCHANGED <<stdout, exit_code>>
  /\ UNCHANGED <<stdin, env, fs, command, files, indent_size, sort_keys, idx, result, errors,
                 modified, output_lines, traceback, opened, trail>>

\* command = input_data.get('command', ''); files = input_data.get('files', [])
ExtractFields ==
  /\ pc = "extract"
  /\ IF stdin.kind # "object"
       THEN /\ Crash("AttributeError")
            /\ UNCHANGED <<command, files>>
       ELSE /\ command' = IF stdin.command.t = "absent" THEN [t |-> "str", s |-> ""]
                          ELSE stdin.command
            /\ files' = IF stdin.files.t = "absent" THEN [t |-> "list", items |-> <<>>]
                        ELSE stdin.files
            /\ pc' = "config"
            /\ UNCHANGED <<stdout, exit_code, traceback>>
  /\ UNCHANGED <<stdin, env, fs, indent_size, sort_keys, idx, result, errors, modified,
                 output_lines, opened, trail>>

\* indent_size = int(os.environ.get('INDENT_SIZE', '2'))
\* sort_keys = os.environ.get('SORT_KEYS', 'false').lower() == 'true'
GetConfig ==
  /\ pc = "config"
  /\ LET n == PyInt(EnvGet(env.INDENT_SIZE, "2"))
     IN IF ~n.ok
          THEN /\ Crash("ValueError")
               /\ UNCHANGED <<indent_size, sort_keys>>
          ELSE /\ indent_size' = n.v
               /\ sort_keys' = (Lower(EnvGet(env.SORT_KEYS, <<"f", "a", "l", "s", "e">>))
                                  = <<"t", "r", "u", "e">>)
               /\ pc' = "command"
               /\ UNCHANGED <<stdout, exit_code, traceback>>
  /\ UNCHANGED <<stdin, env, fs, command, files, idx, result, errors, modified, output_lines,
                 opened, trail>>

\* f"{command}"
CommandText(c) == IF c.t = "null" THEN "None" ELSE c.s

UnknownCommandResponse(c) ==
  [success |-> FALSE, error |-> <<"Unknown command: ", CommandText(c)>>,
   suggestion |-> <<"Supported commands: check">>]

IsCheck(c) == c.t = "str" /\ c.s = "check"

\* if command != 'check'
CheckCommand ==
  /\ pc = "command"
  /\ IF ~IsCheck(command)
       THEN Emit(UnknownCommandResponse(command), 1)
       ELSE /\ pc' = "loop"
            /\ UNCHANGED <<stdout, exit_code>>
  /\ UNCHANGED <<stdin, env, fs, command, files, indent_size, sort_keys, idx, result, errors,
                 modified, output_lines, traceback, opened, trail>>

\* filepath.endswith(('.json', '.jsonc'))
IsJsonPath(p) ==
  \/ EndsWith(p, <<".", "j", "s", "o", "n">>)
  \/ EndsWith(p, <<".", "j", "s", "o", "n", "c">>)

\* for filepath in files: a number is not iterable
IterateFail ==
  /\ pc = "loop"
  /\ files.t = "num"
  /\ Crash("TypeError")
  /\ UNCHANGED <<stdin, env, fs, command, files, indent_size, sort_keys, idx, result, errors,
                 modified, output_lines, opened, trail>>

\* filepath.endswith on an element that is not a string
EntryFail ==
  /\ pc = "loop"
  /\ files.t # "num"
  /\ idx <= Len(files.items)
  /\ files.items[idx].t # "str"
  /\ Crash("AttributeError")
  /\ UNCHANGED <<stdin, env, fs, command, files, indent_size, sort_keys, idx, result, errors,
                 modified, output_lines, opened, trail>>

\* the path is skipped: continue
SkipFile ==
  /\ pc = "loop"
  /\ files.t # "num"
  /\ idx <= Len(files.items)
  /\ files.items[idx].t = "str"
  /\ ~IsJsonPath(files.items[idx].s)
  /\ idx' = idx + 1
  /\ UNCHANGED <<stdin, env, fs, pc, command, files, indent_size, sort_keys, result, errors,
                 modified, output_lines, stdout, exit_code, traceback, opened, trail>>

\* the accumulators after one result
ErrorsAfter(errs, filepath, res) ==
  IF ~res.valid THEN Append(errs, filepath \o <<": ">> \o res.error) ELSE errs
NeedsFormattingLine(filepath, indent, sort) ==
  filepath \o <<": Needs formatting (indent=", ToString(indent), ", sort_keys=",
                PyBool(sort), ")">>
OutputLinesAfter(lines, filepath, res, indent, sort) ==
  IF res.valid /\ res.needs_formatting
    THEN Append(lines, NeedsFormattingLine(filepath, indent, sort))
    ELSE lines
\* modified.insert(0, filepath) in place of modified.append(filepath)
ModifiedAfterPrepend(mod, filepath, res) ==
  IF res.valid /\ res.needs_formatting THEN <<filepath>> \o mod ELSE mod
ModifiedAfter(mod, filepath, res) ==
  IF res.valid /\ res.needs_formatting THEN Append(mod, filepath) ELSE mod

\* the body of the loop for a JSON-suffixed path
CheckFile ==
  /\ pc = "loop"
  /\ files.t # "num"
  /\ idx <= Len(files.items)
  /\ files.items[idx].t = "str"
  /\ IsJsonPath(files.items[idx].s)
  /\ LET filepath == files.items[idx].s
         res == validate_json_file(fs, filepath, indent_size, sort_keys)
     IN /\ opened' = Append(opened, filepath)
        /\ result' = res
        /\ errors' = ErrorsAfter(errors, filepath, res)
        /\ output_lines' = OutputLinesAfter(output_lines, filepath, res, indent_size, sort_keys)
        /\ modified' = ModifiedAfter(modified, filepath, res)
  /\ idx' = idx + 1
  /\ UNCHANGED <<stdin, env, fs, pc, command, files, indent_size, sort_keys, stdout, exit_code,
                 traceback, trail>>

ErrorResponse(errs) ==
  [success |-> FALSE, error |-> Join(errs, "\n"),
   suggestion |-> <<"Fix JSON syntax errors in the listed files">>]

FormattingResponse(mod, lines, indent, sort) ==
  [success |-> FALSE,
   error |-> <<ToString(Len(mod)), " file(s) need formatting">>,
   suggestion |-> <<"Run formatter with indent=", ToString(indent), " and sort_keys=",
                    PyBool(sort)>>,
   modified |-> mod,
   output |-> Join(lines, "\n")]

\* len(files) in the success message
CountedFiles(fl) == Len(fl.items)

SuccessResponse(fl) ==
  [success |-> TRUE,
   output |-> <<"All ", ToString(CountedFiles(fl)),
                " JSON file(s) are valid and properly formatted">>]

\* the three branches, with the formatting branch leaving through the
\* sys.exit(0) of the success branch
VerdictExitZero(errs, mod, lines, fl, indent, sort) ==
  IF errs # <<>> THEN [response |-> ErrorResponse(errs), code |-> 1]
  ELSE IF mod # <<>>
    THEN [response |-> FormattingResponse(mod, lines, indent, sort), code |-> 0]
  ELSE [response |-> SuccessResponse(fl), code |-> 0]

\* the response and the exit status of the three branches
Verdict(errs, mod, lines, fl, indent, sort) ==
  IF errs # <<>> THEN [response |-> ErrorResponse(errs), code |-> 1]
  ELSE IF mod # <<>>
    THEN [response |-> FormattingResponse(mod, lines, indent, sort), code |-> 1]
  ELSE [response |-> SuccessResponse(fl), code |-> 0]

\* Generate response
Respond ==
  /\ pc = "loop"
  /\ files.t # "num"
  /\ idx > Len(files.items)
  /\ LET v == Verdict(errors, modified, output_lines, files, indent_size, sort_keys)
     IN Emit(v.response, v.code)
  /\ UNCHANGED <<stdin, env, fs, command, files, indent_size, sort_keys, idx, result, errors,
                 modified, output_lines, traceback, opened, trail>>

Init ==
  /\ stdin \in Payloads
  /\ env \in Environments
  /\ fs \in FileSystems
  /\ pc = "read"
  /\ command = [t |-> "str", s |-> ""]
  /\ files = [t |-> "list", items |-> <<>>]
  /\ indent_size = 2
  /\ sort_keys = FALSE
  /\ idx = 1
  /\ result = NoResult
  /\ errors = <<>>
  /\ modified = <<>>
  /\ output_lines = <<>>
  /\ stdout = <<>>
  /\ exit_code = -1
  /\ traceback = ""
  /\ opened = <<>>
  /\ trail = <<>>

Next ==
  \/ ReadInput
  \/ ExtractFields
  \/ GetConfig
  \/ CheckCommand
  \/ IterateFail
  \/ EntryFail
  \/ SkipFile
  \/ CheckFile
  \/ Respond

Spec == Init /\ [][Next]_vars

(***************************************************************************)
(* validate_json_file on its own: one file of many contents is checked,    *)
(* rewritten with the text the checker reports, and checked again.         *)
(***************************************************************************)
\*   {"b":1,"a":[1e0]}   [{},"a"]   1   {"a":1,"a":"b"}
Seeds ==
  {<<"{", "\"b\"", ":", "1", ",", "\"a\"", ":", "[", "1e0", "]", "}">>,
   <<"[", "{", "}", ",", "\"a\"", "]">>,
   <<"1">>,
   <<"{", "\"a\"", ":", "1", ",", "\"a\"", ":", "\"b\"", "}">>}
FileIndents == {0, 2}
\* the seeds and their canonical texts
BaseContents ==
  Seeds \cup {JsonDumps(JsonLoads(c).val, i, b) : c \in Seeds, i \in FileIndents, b \in BOOLEAN}
\* one lexeme inserted before position n, or the lexeme at position n removed
Insert(c, n, tok) == SubSeq(c, 1, n - 1) \o <<tok>> \o SubSeq(c, n, Len(c))
Delete(c, n) == SubSeq(c, 1, n - 1) \o SubSeq(c, n + 1, Len(c))
\* two number lexemes side by side would read as one number
Lexable(c) == \A n \in 1..(Len(c) - 1) : ~(c[n] \in NumberLexemes /\ c[n + 1] \in NumberLexemes)
TestContents ==
  {c \in BaseContents
       \cup UNION {{Insert(b, n, tok) : n \in 1..(Len(b) + 1), tok \in Alphabet} : b \in BaseContents}
       \cup UNION {{Delete(b, n) : n \in 1..Len(b)} : b \in BaseContents} :
     Lexable(c)}

\* the whitespace that may follow the text written back to the file
TrailSeqs == UNION {[1..k -> PyWs] : k \in 0..MaxTrail}

FileInit ==
  /\ \E c \in TestContents : fs = [p \in Paths |-> File(c)]
  /\ indent_size \in FileIndents
  /\ sort_keys \in BOOLEAN
  /\ pc = "file"
  /\ stdin = [kind |-> "object", command |-> [t |-> "str", s |-> "check"],
              files |-> [t |-> "list", items |-> <<StrEntry(PathA)>>]]
  /\ env = [INDENT_SIZE |-> [set |-> FALSE, val |-> ""], SORT_KEYS |-> [set |-> FALSE, val |-> <<>>]]
  /\ command = [t |-> "str", s |-> "check"]
  /\ files = [t |-> "list", items |-> <<StrEntry(PathA)>>]
  /\ idx = 1
  /\ result = NoResult
  /\ errors = <<>>
  /\ modified = <<>>
  /\ output_lines = <<>>
  /\ stdout = <<>>
  /\ exit_code = -1
  /\ traceback = ""
  /\ opened = <<>>
  /\ trail = <<>>

\* result = validate_json_file(filepath, indent_size, sort_keys)
ValidateFile ==
  /\ pc = "file"
  /\ result' = validate_json_file(fs, PathA, indent_size, sort_keys)
  /\ opened' = Append(opened, PathA)
  /\ pc' = "validated"
  /\ UNCHANGED <<stdin, env, fs, command, files, indent_size, sort_keys, idx, errors, modified,
                 output_lines, stdout, exit_code, traceback, trail>>

\* the file's content is replaced by result['formatted'], with or without
\* whitespace after it
RewriteFile ==
  /\ pc = "validated"
  /\ result.valid
  /\ result.needs_formatting
  /\ \E ws \in TrailSeqs :
       /\ fs' = [fs EXCEPT ![PathA] = File(result.formatted \o ws)]
       /\ trail' = ws
  /\ pc' = "rewritten"
  /\ UNCHANGED <<stdin, env, command, files, indent_size, sort_keys, idx, result, errors,
                 modified, output_lines, stdout, exit_code, traceback, opened>>

\* the checker is run again on the rewritten file, with the same options
RevalidateFile ==
  /\ pc = "rewritten"
  /\ result' = validate_json_file(fs, PathA, indent_size, sort_keys)
  /\ opened' = Append(opened, PathA)
  /\ pc' = "revalidated"
  /\ UNCHANGED <<stdin, env, fs, command, files, indent_size, sort_keys, idx, errors, modified,
                 output_lines, stdout, exit_code, traceback, trail>>

FileNext ==
  \/ ValidateFile
  \/ RewriteFile
  \/ RevalidateFile

FileSpec == FileInit /\ [][FileNext]_vars

(***************************************************************************)
(* Vocabulary of the properties.                                           *)
(***************************************************************************)
Done == pc = "done"
Responded == Done /\ Len(stdout) = 1

\* the three response shapes
IsSuccessShape(r) == DOMAIN r = {"success", "output"} /\ r.success
IsFormattingShape(r) ==
  DOMAIN r = {"success", "error", "suggestion", "modified", "output"} /\ ~r.success
IsFailureShape(r) == DOMAIN r = {"success", "error", "suggestion"} /\ ~r.success

\* the request on stdin is an object whose command is "check"
CheckRequest == stdin.kind = "object" /\ IsCheck(stdin.command)
\* the `files` of the request, [] when absent
RequestItems == stdin.files.items
FilesIsList == stdin.files.t \in {"list", "absent"}

\* the JSON-suffixed paths among the elements of a list, in order
IsJsonEntry(e) == e.t = "str" /\ IsJsonPath(e.s)
JsonPathsOf(items) ==
  LET sel == SelectSeq(items, IsJsonEntry) IN [i \in 1..Len(sel) |-> sel[i].s]
IsOtherEntry(e) == e.t = "str" /\ ~IsJsonPath(e.s)

\* the outcome of a path under the options of this run
Outcome(p) ==
  LET r == validate_json_file(fs, p, indent_size, sort_keys)
  IN IF ~r.valid THEN "Error" ELSE IF r.needs_formatting THEN "NeedsFormatting" ELSE "Valid"
IsNeedsFormatting(p) == Outcome(p) = "NeedsFormatting"
IsError(p) == Outcome(p) = "Error"

\* sub occurs in text as a run of consecutive pieces
Occurs(sub, text) ==
  \E k \in 0..(Len(text) - Len(sub)) : SubSeq(text, k + 1, k + Len(sub)) = sub

\* the lines of a text
RECURSIVE SplitLines(_, _)
SplitLines(text, line) ==
  IF text = <<>> THEN <<line>>
  ELSE IF Head(text) = "\n" THEN <<line>> \o SplitLines(Tail(text), <<>>)
  ELSE SplitLines(Tail(text), Append(line, Head(text)))

StartsWith(text, prefix) ==
  Len(text) >= Len(prefix) /\ SubSeq(text, 1, Len(prefix)) = prefix

\* the response and exit status of a run of the loop over a list of paths
RECURSIVE Accumulate(_, _)
Accumulate(acc, paths) ==
  IF paths = <<>> THEN acc
  ELSE LET p == Head(paths)
           r == validate_json_file(fs, p, indent_size, sort_keys)
       IN Accumulate([errors |-> ErrorsAfter(acc.errors, p, r),
                      modified |-> ModifiedAfter(acc.modified, p, r),
                      output_lines |-> OutputLinesAfter(acc.output_lines, p, r, indent_size,
                                                        sort_keys)],
                     Tail(paths))
VerdictOf(items) ==
  LET acc == Accumulate([errors |-> <<>>, modified |-> <<>>, output_lines |-> <<>>],
                        JsonPathsOf(items))
  IN Verdict(acc.errors, acc.modified, acc.output_lines, [t |-> "list", items |-> items],
             indent_size, sort_keys)

(***************************************************************************)
(* C1                                                                      *)
(***************************************************************************)
\* C1: every invocation emits exactly one response of one of the three
\* shapes and exits: never more than one response, and none missing when
\* the process has ended.
C1_ExactlyOneResponse ==
  /\ Len(stdout) <= 1
  /\ Done =>
       /\ Len(stdout) = 1
       /\ \/ IsSuccessShape(stdout[1])
          \/ IsFormattingShape(stdout[1])
          \/ IsFailureShape(stdout[1])
       /\ exit_code \in {0, 1}

(***************************************************************************)
(* C2                                                                      *)
(***************************************************************************)
\* C2: when the command is "check" and a JSON-suffixed file of the request
\* yields an Error outcome, the response is the hard-failure shape, without
\* `modified` and `output`, and mentions no file that only needs formatting.
C2_ErrorsDominate ==
  (/\ Done
   /\ CheckRequest
   /\ \E i \in 1..Len(opened) : IsError(opened[i]))
    => /\ Len(stdout) = 1
       /\ IsFailureShape(stdout[1])
       /\ \A p \in Paths :
            (IsNeedsFormatting(p) /\ Occurs(<<StrEntry(p)>>, RequestItems))
              => ~Occurs(p, stdout[1].error)

(***************************************************************************)
(* C3                                                                      *)
(***************************************************************************)
\* C3: an unparseable payload is answered with "Invalid input JSON", a
\* command other than "check" with "Unknown command: <command>"; in both
\* cases the exit status is non-zero and no file was opened.
C3_ProtocolErrorsTerminal ==
  Done =>
    /\ stdin.kind = "garbage" =>
         /\ stdout = <<[success |-> FALSE, error |-> <<"Invalid input JSON">>,
                        suggestion |-> <<"Plugin expects valid JSON input via stdin">>]>>
         /\ exit_code # 0
         /\ opened = <<>>
    /\ (stdin.kind = "object" /\ ~IsCheck(stdin.command)) =>
         /\ stdout = <<[success |-> FALSE,
                        error |-> <<"Unknown command: ", CommandText(stdin.command)>>,
                        suggestion |-> <<"Supported commands: check">>]>>
         /\ exit_code # 0
         /\ opened = <<>>

(***************************************************************************)
(* C4                                                                      *)
(***************************************************************************)
\* C4: in every run that emits a response the exit status is zero exactly
\* when the response has success=true; it is non-zero on the formatting,
\* per-file error and protocol-error branches.
C4_ExitMirrorsVerdict ==
  Responded =>
    /\ (exit_code = 0) <=> stdout[1].success
    /\ ~IsSuccessShape(stdout[1]) => exit_code # 0

\* a run that ended on the formatting-needed branch
C4_Witness == Responded /\ IsFormattingShape(stdout[1]) /\ exit_code = 1

(***************************************************************************)
(* C5                                                                      *)
(***************************************************************************)
\* C5: the number in the success message is the number of paths of the
\* request that end in .json or .jsonc.
C5_CountsCheckedFiles ==
  (Responded /\ IsSuccessShape(stdout[1]))
    => stdout[1].output = <<"All ", ToString(Len(JsonPathsOf(RequestItems))),
                            " JSON file(s) are valid and properly formatted">>

(***************************************************************************)
(* C6                                                                      *)
(***************************************************************************)
\* C6: paths without a JSON suffix are never opened and do not affect the
\* response or the exit status: the run answers as a run on the request
\* without them would.
C6_OtherPathsInvisible ==
  /\ \A i \in 1..Len(opened) : IsJsonPath(opened[i])
  /\ (/\ Responded
      /\ CheckRequest
      /\ FilesIsList
      /\ \A i \in 1..Len(RequestItems) : RequestItems[i].t = "str")
       => LET kept == SelectSeq(RequestItems, IsJsonEntry)
          IN /\ stdout[1] = VerdictOf(kept).response
             /\ exit_code = VerdictOf(kept).code

(***************************************************************************)
(* C7                                                                      *)
(***************************************************************************)
\* C7: on the formatting-needed branch success is false, `modified` is the
\* subsequence of the request's JSON-suffixed paths whose outcome is
\* NeedsFormatting, in input order and with repetitions, the count in
\* `error` is its length, and `output` has one line per entry, in order.
C7_ModifiedInInputOrder ==
  (Responded /\ "modified" \in DOMAIN stdout[1]) =>
    LET r == stdout[1]
        lines == SplitLines(r.output, <<>>)
    IN /\ ~r.success
       /\ r.modified = SelectSeq(JsonPathsOf(RequestItems), IsNeedsFormatting)
       /\ r.error = <<ToString(Len(r.modified)), " file(s) need formatting">>
       /\ Len(lines) = Len(r.modified)
       /\ \A i \in 1..Len(lines) : StartsWith(lines[i], r.modified[i])

\* two different files need formatting, the second of the request first in
\* the alphabet, after a file that is valid
C7_Witness ==
  /\ Responded
  /\ "modified" \in DOMAIN stdout[1]
  /\ stdout[1].modified = <<PathB, PathA>>

(***************************************************************************)
(* C8                                                                      *)
(***************************************************************************)
\* C8 as stated: a file reported as NeedsFormatting and rewritten with the
\* reported text, with or without trailing whitespace after it, is Valid
\* when checked again with the same options.
C8_RewrittenIsValid ==
  pc = "revalidated" => (result.valid /\ ~result.needs_formatting)

\* C8 amended: the same, when the whitespace appended is whitespace of
\* JSON (space, tab, line feed, carriage return); and in every case the
\* second run does not report the file as needing formatting.
C8_RewrittenIsValidJsonWs ==
  pc = "revalidated" =>
    /\ (\A i \in 1..Len(trail) : trail[i] \in JsonWs) => (result.valid /\ ~result.needs_formatting)
    /\ ~(result.valid /\ result.needs_formatting)

\* a rewritten file followed by a space was checked again
C8_Witness == pc = "revalidated" /\ trail = <<" ">> /\ result.valid

(***************************************************************************)
(* C9                                                                      *)
(***************************************************************************)
\* C9: a readable file that parses is Valid exactly when its canonical
\* text equals its content without trailing whitespace, and otherwise
\* NeedsFormatting with that canonical text; trailing whitespace alone is
\* Valid, leading whitespace is NeedsFormatting, and it is never an Error.
C9_ValidIffCanonical ==
  LET content == fs[PathA].content
      data == JsonLoads(content)
      canonical == JsonDumps(data.val, indent_size, sort_keys)
  IN (pc = "validated" /\ data.ok) =>
       /\ result.valid
       /\ ~result.needs_formatting <=> (canonical = RStrip(content))
       /\ result.needs_formatting => result.formatted = canonical
       /\ (/\ StartsWith(content, canonical)
           /\ \A i \in (Len(canonical) + 1)..Len(content) : content[i] \in PyWs)
            => ~result.needs_formatting
       /\ (content # <<>> /\ content[1] \in PyWs) => result.needs_formatting

\* a canonical text followed by a newline was found Valid
C9_Witness ==
  /\ pc = "validated"
  /\ result.valid
  /\ ~result.needs_formatting
  /\ Len(fs[PathA].content) > 1
  /\ fs[PathA].content[Len(fs[PathA].content)] = "\n"

(***************************************************************************)
(* C10                                                                     *)
(***************************************************************************)
\* C10: with command "check" every JSON-suffixed path of the request is
\* checked once, in input order, whatever happened to earlier files; a
\* missing file gives "File not found: <path>", and the error response has
\* one newline-joined entry per erroring file, in input order.
C10_EveryFileChecked ==
  (Done /\ CheckRequest /\ FilesIsList) =>
    LET paths == JsonPathsOf(RequestItems)
        failed == SelectSeq(paths, IsError)
    IN /\ opened = paths
       /\ \A i \in 1..Len(paths) :
            fs[paths[i]].kind = "missing"
              => validate_json_file(fs, paths[i], indent_size, sort_keys).error
                   = <<"File not found: ">> \o paths[i]
       /\ failed # <<>> =>
            /\ Len(stdout) = 1
            /\ LET lines == SplitLines(stdout[1].error, <<>>)
               IN /\ Len(lines) = Len(failed)
                  /\ \A i \in 1..Len(lines) : StartsWith(lines[i], failed[i] \o <<": ">>)

(***************************************************************************)
(* C2, C3 and C10 on the inputs the data model describes: the payload is   *)
(* an object or not JSON at all, INDENT_SIZE is unset or an integer, and   *)
(* `files` is a list of strings.                                           *)
(***************************************************************************)
WellTyped ==
  /\ stdin.kind \in {"garbage", "object"}
  /\ PyInt(EnvGet(env.INDENT_SIZE, "2")).ok
  /\ FilesIsList
  /\ \A i \in 1..Len(RequestItems) : RequestItems[i].t = "str"

\* on well-typed inputs an Error outcome gives the hard-failure shape
ErrorsDominateWellTyped == WellTyped => C2_ErrorsDominate
\* on well-typed inputs a protocol error is answered before any file access
ProtocolErrorsTerminalWellTyped == WellTyped => C3_ProtocolErrorsTerminal
\* on well-typed inputs every JSON-suffixed path is checked once, in order
EveryFileCheckedWellTyped == WellTyped => C10_EveryFileChecked
\* no run opens a file before the loop, whatever the input
NoFileBeforeLoop == pc \in {"read", "extract", "config", "command"} => opened = <<>>
====
